---- MODULE Spec2Model ----
(***************************************************************************)
(* PriceHawk: the price-observation ingest (manual check and hourly       *)
(* sweep), the alert evaluation and the product registration of the       *)
(* Express/PostgreSQL backend.                                             *)
(*                                                                         *)
(* The relational store is the three tables the handlers query: products, *)
(* price_history and alerts.  A handler is split at its store operations  *)
(* (each `await pool.query`), every one of which may throw.  The price     *)
(* scrapeFacebookListing returns is the observation of the listing source: *)
(* it is an input of the model, drawn from Prices, and the fetch may fail. *)
(* A price read back from the store compares equal (!==, <=) to the same   *)
(* number coming from the scraper.                                         *)
(***************************************************************************)
EXTENDS Integers, Sequences, FiniteSets, TLC

\* ----------------------------------------------------------------- bounds
MaxClock == 3        \* ingests and registrations a behaviour may start
MaxAdds == 1         \* POST /api/products requests that reach the store
MaxFaults == 1       \* store, fetch and mail operations that may fail
NumHandlers == 2     \* manual-check requests the server may hold at once

\* ------------------------------------------------------------ input values
Prices == {85, 90, 95, 100}      \* prices the listing source may show
Targets == {0, 90}               \* target_price of a request body; 0 is falsy
ListingIds == {1, 2}             \* the /marketplace/item/<digits> of a URL
ProductIds == {1, 2, 3}          \* the :id of a manual check; 3 is never a row
Seed == [price |-> 100, target |-> 90]   \* the listings and the alert present at start

NULL == 0                        \* SQL NULL of a timestamp column
NoPrice == 0 - 1                 \* a response body without a price

Cron == 0                        \* the cron.schedule callback
Handlers == 1..NumHandlers       \* POST /api/products/:id/check requests
Procs == {Cron} \cup Handlers

VARIABLES
    products,       \* products table: id -> row
    price_history,  \* price_history table: product id -> prices in insert order
    alerts,         \* alerts table: sequence of rows, the id is the index
    now,            \* the store's clock, NOW()
    adds,           \* POST /api/products requests that reached the store
    faults,         \* operations that have failed so far
    sent,           \* transporter.sendMail calls made, per alert id
    task,           \* per process: the ingest it is running and its locals
    sweep,          \* the cron callback's products.rows and loop position
    response,       \* the HTTP response the last step sent, NoResponse if none
    log             \* the console.error line the last step wrote, NoLog if none

vars == <<products, price_history, alerts, now, adds, faults, sent, task, sweep, response, log>>

store == <<products, price_history, alerts, sent>>

\* ------------------------------------------------------------ store rows
Row(l, p, s, t) == [listing_id |-> l, current_price |-> p, status |-> s, last_checked |-> t]

\* Columns the INSERT statements do not name take their defaults: an alert
\* is created active and never triggered, a product never checked.
ColumnDefaults == [is_active |-> TRUE, triggered_at |-> NULL, last_checked |-> NULL]

AlertRow(pid, target) ==
    [product_id |-> pid, target_price |-> target,
     is_active |-> ColumnDefaults.is_active, triggered_at |-> ColumnDefaults.triggered_at]

AlertIds == DOMAIN alerts

\* ---------------------------------------------------------- process state
IdleTask == [pc |-> "idle", id |-> 0, old |-> NoPrice, price |-> NoPrice, todo |-> <<>>]
IdleSweep == [rows |-> <<>>, idx |-> 0]
NoResponse == [route |-> "", id |-> 0, status |-> 0]
NoLog == [line |-> "", id |-> 0]
Log(line, id) == [line |-> line, id |-> id]
Reply(route, id, status) == [route |-> route, id |-> id, status |-> status]

\* No ingest is in progress: every handler is idle and the sweep, if one is
\* running, is in the delay between two of its iterations.
Quiet == \A p \in Procs : task[p].pc \in {"idle", "delay"}

\* Iterations the running sweep has still to begin.
SweepRest == Len(sweep.rows) - sweep.idx

\* The loop body of the sweep entered for one row of products.rows.
ItemTask(row) ==
    [pc |-> "scrape", id |-> row.id, old |-> row.current_price,
     price |-> NoPrice, todo |-> <<>>]

\* for (const product of products.rows): the next iteration, or the end.
SweepAdvance ==
    IF sweep.idx < Len(sweep.rows)
    THEN /\ sweep' = [sweep EXCEPT !.idx = @ + 1]
         /\ task' = [task EXCEPT ![Cron] = ItemTask(sweep.rows[sweep.idx + 1])]
         /\ now' = now + 1
         /\ adds' = adds
    ELSE /\ sweep' = IdleSweep
         /\ task' = [task EXCEPT ![Cron] = IdleTask]
         /\ UNCHANGED <<now, adds>>

ThrowAbortsSweep(p) ==
    IF p = Cron
    THEN /\ log' = Log("Error checking product <id>", task[p].id)
         /\ response' = NoResponse
         /\ sweep' = IdleSweep
         /\ task' = [task EXCEPT ![Cron] = IdleTask]
         /\ UNCHANGED <<now, adds>>
    ELSE /\ log' = Log("Error checking product", task[p].id)
         /\ response' = Reply("check", task[p].id, 500)
         /\ task' = [task EXCEPT ![p] = IdleTask]
         /\ UNCHANGED <<sweep, now, adds>>

\* The ingest of p threw: the handler's catch answers 500; the sweep's
\* per-product catch logs and the loop goes on with the next row at once.
Throw(p) ==
    IF p = Cron
    THEN /\ log' = Log("Error checking product <id>", task[p].id)
         /\ response' = NoResponse
         /\ SweepAdvance
    ELSE /\ log' = Log("Error checking product", task[p].id)
         /\ response' = Reply("check", task[p].id, 500)
         /\ task' = [task EXCEPT ![p] = IdleTask]
         /\ UNCHANGED <<sweep, now, adds>>

\* The ingest of p ran to its end, having logged `line` in its last step:
\* the handler answers 200 with the price; the sweep starts its 2 s delay.
Finish(p, line) ==
    /\ log' = line
    /\ UNCHANGED <<sweep, now, adds>>
    /\ IF p = Cron
       THEN /\ response' = NoResponse
            /\ task' = [task EXCEPT ![Cron] = [IdleTask EXCEPT !.pc = "delay"]]
       ELSE /\ response' = Reply("check", task[p].id, 200)
            /\ task' = [task EXCEPT ![p] = IdleTask]

\* The step of p neither ends its ingest nor writes anything out.
Goto(p, t) ==
    /\ task' = [task EXCEPT ![p] = t]
    /\ log' = NoLog
    /\ response' = NoResponse
    /\ UNCHANGED <<sweep, now, adds>>

\* ------------------------------------------------------------- the store
\* Every order in which a SELECT without ORDER BY may return the rows S.
Orders(S) ==
    {f \in [1..Cardinality(S) -> S] : \A i, j \in DOMAIN f : i # j => f[i] # f[j]}

AllProducts == DOMAIN products

\* SELECT * FROM products WHERE status = 'active'
ActiveProducts == {i \in DOMAIN products : products[i].status = "active"}

\* SELECT id FROM products WHERE listing_id = $1
Existing(l) == {i \in DOMAIN products : products[i].listing_id = l}

FiresStrict(currentPrice, target_price) == currentPrice < target_price

\* if (currentPrice <= alert.target_price)
Fires(currentPrice, target_price) == currentPrice <= target_price

AlertsOfProduct(productId) ==
    {a \in AlertIds : /\ alerts[a].product_id = productId
                      /\ productId \in DOMAIN products}

\* SELECT a.* FROM alerts a JOIN products p ... WHERE a.product_id = $1 AND
\* a.is_active = true
ActiveAlerts(productId) ==
    {a \in AlertIds : /\ alerts[a].product_id = productId
                      /\ alerts[a].is_active
                      /\ productId \in DOMAIN products}

\* The alerts of alerts.rows the loop of checkAlerts acts on: the others are
\* passed over without a store operation.
Firing(productId, currentPrice) ==
    {a \in ActiveAlerts(productId) : Fires(currentPrice, alerts[a].target_price)}

\* What `await checkAlerts(...)` hands back to the ingest: checkAlerts has no
\* return statement, so its caller gets no alert, fired or not.
checkAlertsReturn == <<>>

\* ------------------------------------------- POST /api/products/:id/check
CheckStartNo404(h, id, fail) ==
    /\ task[h].pc = "idle"
    /\ \A g \in Handlers : g < h => task[g].pc # "idle"
    /\ UNCHANGED <<store, sweep, adds>>
    /\ IF fail \/ id \notin DOMAIN products
       THEN /\ log' = Log("Error checking product", id)
            /\ response' = Reply("check", id, 500)
            /\ UNCHANGED <<task, now>>
       ELSE /\ now + SweepRest < MaxClock
            /\ now' = now + 1
            /\ log' = NoLog
            /\ response' = NoResponse
            /\ task' = [task EXCEPT ![h] =
                   [pc |-> "scrape", id |-> id, old |-> products[id].current_price,
                    price |-> NoPrice, todo |-> <<>>]]

\* SELECT * FROM products WHERE id = $1, then 404 when there is no row.
CheckStart(h, id, fail) ==
    /\ task[h].pc = "idle"
    /\ \A g \in Handlers : g < h => task[g].pc # "idle"
    /\ UNCHANGED <<store, sweep, adds>>
    /\ IF fail
       THEN /\ log' = Log("Error checking product", id)
            /\ response' = Reply("check", id, 500)
            /\ UNCHANGED <<task, now, adds>>
       ELSE IF id \notin DOMAIN products
       THEN /\ log' = NoLog
            /\ response' = Reply("check", id, 404)
            /\ UNCHANGED <<task, now, adds>>
       ELSE /\ now + SweepRest < MaxClock
            /\ now' = now + 1
            /\ adds' = adds
            /\ log' = NoLog
            /\ response' = NoResponse
            /\ task' = [task EXCEPT ![h] =
                   [pc |-> "scrape", id |-> id, old |-> products[id].current_price,
                    price |-> NoPrice, todo |-> <<>>]]

\* ------------------------------------ the ingest, of a handler or the sweep
\* listingData = await scrapeFacebookListing(marketplace_url): r is the price
\* of the listing, or NoPrice when the fetch throws.
Scrape(p, r) ==
    /\ task[p].pc = "scrape"
    /\ UNCHANGED store
    /\ IF r = NoPrice
       THEN Throw(p)
       ELSE Goto(p, [task[p] EXCEPT !.pc = "update", !.price = r])

UpdateConditional(p, fail) ==
    /\ task[p].pc = "update"
    /\ UNCHANGED <<price_history, alerts, sent>>
    /\ IF fail
       THEN UNCHANGED products /\ Throw(p)
       ELSE /\ products' = [products EXCEPT ![task[p].id].current_price = task[p].price,
                                            ![task[p].id].last_checked = now]
            /\ IF task[p].price # products[task[p].id].current_price
               THEN Goto(p, [task[p] EXCEPT !.pc = "history"])
               ELSE Finish(p, NoLog)

\* UPDATE products SET current_price = $1, last_checked = NOW() WHERE id = $2,
\* then the comparison of the price with the one read before.
Update(p, fail) ==
    /\ task[p].pc = "update"
    /\ UNCHANGED <<price_history, alerts, sent>>
    /\ IF fail
       THEN UNCHANGED products /\ Throw(p)
       ELSE /\ products' = [products EXCEPT ![task[p].id].current_price = task[p].price,
                                            ![task[p].id].last_checked = now]
            /\ IF task[p].price # task[p].old
               THEN Goto(p, [task[p] EXCEPT !.pc = "history"])
               ELSE Finish(p, NoLog)

HistoryNoEvaluation(p, fail) ==
    /\ task[p].pc = "history"
    /\ UNCHANGED <<products, alerts, sent>>
    /\ IF fail
       THEN UNCHANGED price_history /\ Throw(p)
       ELSE /\ price_history' =
                  [price_history EXCEPT ![task[p].id] = Append(@, task[p].price)]
            /\ Finish(p, NoLog)

\* INSERT INTO price_history (product_id, price) VALUES ($1, $2)
History(p, fail) ==
    /\ task[p].pc = "history"
    /\ UNCHANGED <<products, alerts, sent>>
    /\ IF fail
       THEN UNCHANGED price_history /\ Throw(p)
       ELSE /\ price_history' =
                  [price_history EXCEPT ![task[p].id] = Append(@, task[p].price)]
            /\ Goto(p, [task[p] EXCEPT !.pc = "alerts"])

\* checkAlerts: the SELECT of the active alerts; a throw is caught inside
\* checkAlerts, which then returns to the ingest.
LoadAlerts(p, fail) ==
    /\ task[p].pc = "alerts"
    /\ UNCHANGED store
    /\ IF fail
       THEN Finish(p, Log("Error checking alerts", task[p].id))
       ELSE \E rows \in Orders(Firing(task[p].id, task[p].price)) :
               IF rows = <<>>
               THEN Finish(p, NoLog)
               ELSE Goto(p, [task[p] EXCEPT !.pc = "notify", !.todo = rows])

NotifyUncaught(p, ok) ==
    /\ task[p].pc = "notify"
    /\ sent' = [sent EXCEPT ![Head(task[p].todo)] = @ + 1]
    /\ UNCHANGED <<products, price_history, alerts>>
    /\ IF ok
       THEN Goto(p, [task[p] EXCEPT !.pc = "deactivate"])
       ELSE Throw(p)

\* sendPriceAlert: transporter.sendMail; a throw is caught inside
\* sendPriceAlert and logged.
Notify(p, ok) ==
    /\ task[p].pc = "notify"
    /\ sent' = [sent EXCEPT ![Head(task[p].todo)] = @ + 1]
    /\ task' = [task EXCEPT ![p].pc = "deactivate"]
    /\ log' = IF ok THEN NoLog ELSE Log("Error sending email", Head(task[p].todo))
    /\ response' = NoResponse
    /\ UNCHANGED <<products, price_history, alerts, sweep, now, adds>>

DeactivateStampOnly(p, fail) ==
    /\ task[p].pc = "deactivate"
    /\ UNCHANGED <<products, price_history, sent>>
    /\ IF fail
       THEN UNCHANGED alerts /\ Finish(p, Log("Error checking alerts", task[p].id))
       ELSE /\ alerts' = [alerts EXCEPT ![Head(task[p].todo)].triggered_at = now]
            /\ IF Tail(task[p].todo) = <<>>
               THEN Finish(p, NoLog)
               ELSE Goto(p, [task[p] EXCEPT !.pc = "notify", !.todo = Tail(@)])

\* UPDATE alerts SET triggered_at = NOW(), is_active = false WHERE id = $1;
\* a throw leaves the loop for the catch of checkAlerts.
Deactivate(p, fail) ==
    /\ task[p].pc = "deactivate"
    /\ UNCHANGED <<products, price_history, sent>>
    /\ IF fail
       THEN UNCHANGED alerts /\ Finish(p, Log("Error checking alerts", task[p].id))
       ELSE /\ alerts' = [alerts EXCEPT ![Head(task[p].todo)].is_active = FALSE,
                                        ![Head(task[p].todo)].triggered_at = now]
            /\ IF Tail(task[p].todo) = <<>>
               THEN Finish(p, NoLog)
               ELSE Goto(p, [task[p] EXCEPT !.pc = "notify", !.todo = Tail(@)])

\* ------------------------------------------------------- cron.schedule
\* SELECT * FROM products WHERE status = 'active', kept as products.rows for
\* the whole sweep; the loop enters its first iteration at once.
SweepRows == {[i \in DOMAIN f |-> [id |-> f[i], current_price |-> products[f[i]].current_price]] :
                 f \in Orders(ActiveProducts)}

SweepStart(fail) ==
    /\ task[Cron].pc = "idle"
    /\ UNCHANGED store
    /\ response' = NoResponse
    /\ IF fail
       THEN /\ log' = Log("Error in scheduled price check", 0)
            /\ UNCHANGED <<task, sweep, now, adds>>
       ELSE \E rows \in SweepRows :
               /\ now + Len(rows) <= MaxClock
               /\ log' = NoLog
               /\ IF rows = <<>>
                  THEN UNCHANGED <<task, sweep, now, adds>>
                  ELSE /\ sweep' = [rows |-> rows, idx |-> 1]
                       /\ task' = [task EXCEPT ![Cron] = ItemTask(rows[1])]
                       /\ now' = now + 1
                       /\ adds' = adds

\* The 2 s delay after an iteration is over: the loop goes on.
SweepNext ==
    /\ task[Cron].pc = "delay"
    /\ UNCHANGED store
    /\ response' = NoResponse
    /\ log' = NoLog
    /\ SweepAdvance

\* ------------------------------------------------------ POST /api/products
\* url: the item number in marketplace_url, 0 when the body has none;
\* r: the scraped price, NoPrice when scrapeFacebookListing throws;
\* failAt: the store operation of the handler that throws (0: none):
\*   1 SELECT existing, 2 UPDATE or INSERT products, 3 INSERT price_history,
\*   4 INSERT alerts, 5 the closing SELECT.
AddProduct(url, target_price, r, failAt) ==
    /\ UNCHANGED <<task, sweep>>
    /\ IF url = 0
       THEN /\ response' = Reply("add", 0, 400)
            /\ log' = NoLog
            /\ UNCHANGED <<store, now, adds>>
       ELSE IF r = NoPrice
       THEN /\ response' = Reply("add", 0, 500)
            /\ log' = Log("Error adding product", 0)
            /\ UNCHANGED <<store, now, adds>>
       ELSE LET isNew == Existing(url) = {}
                productId == IF isNew THEN Cardinality(DOMAIN products) + 1
                             ELSE CHOOSE i \in Existing(url) : TRUE
                done(k) == failAt = 0 \/ failAt > k
                withAlert == target_price # 0
            IN  /\ failAt = 4 => withAlert
                /\ now + SweepRest < MaxClock
                /\ adds < MaxAdds
                /\ now' = now + 1
                /\ adds' = adds + 1
                /\ products' =
                     IF ~done(2) THEN products
                     ELSE IF isNew
                     THEN [i \in DOMAIN products \cup {productId} |->
                             IF i = productId
                             THEN Row(url, r, "active", ColumnDefaults.last_checked)
                             ELSE products[i]]
                     ELSE [products EXCEPT ![productId].current_price = r,
                                           ![productId].last_checked = now',
                                           ![productId].status = "active"]
                /\ price_history' =
                     [i \in DOMAIN products' |->
                        LET h == IF i \in DOMAIN price_history THEN price_history[i] ELSE <<>>
                        IN  IF i = productId /\ done(3) THEN Append(h, r) ELSE h]
                /\ alerts' = IF withAlert /\ done(4)
                             THEN Append(alerts, AlertRow(productId, target_price))
                             ELSE alerts
                /\ sent' = IF withAlert /\ done(4) THEN Append(sent, 0) ELSE sent
                /\ IF failAt = 0
                   THEN /\ response' = Reply("add", productId, 200)
                        /\ log' = NoLog
                   ELSE /\ response' = Reply("add", 0, 500)
                        /\ log' = Log("Error adding product", 0)

\* ------------------------------------------------------- specification
\* The store as the process finds it: listing 1, active, with one active
\* alert; listing 2 active, inactive or not tracked yet.
Init ==
    /\ \E s2 \in {"active", "inactive", "absent"} :
          /\ products = IF s2 = "absent" THEN (1 :> Row(1, Seed.price, "active", NULL))
                        ELSE (1 :> Row(1, Seed.price, "active", NULL))
                             @@ (2 :> Row(2, Seed.price, s2, NULL))
          /\ price_history = [i \in DOMAIN products |-> <<Seed.price>>]
    /\ alerts = <<AlertRow(1, Seed.target)>>
    /\ sent = <<0>>
    /\ now = 0
    /\ adds = 0
    /\ faults = 0
    /\ task = [p \in Procs |-> IdleTask]
    /\ sweep = IdleSweep
    /\ response = NoResponse
    /\ log = NoLog

FetchResults == Prices \cup {NoPrice}

\* One request per outcome: the inputs an early return never reads are fixed.
AddRequest(url, t, r, failAt) ==
    /\ url = 0 => t = 0 /\ r = NoPrice
    /\ r = NoPrice => t = 0 /\ failAt = 0

\* The environment makes an operation fail, within the bound on failures.
Fault(fail) ==
    IF fail THEN faults < MaxFaults /\ faults' = faults + 1 ELSE faults' = faults

\* Every request and every sweep iteration runs to completion before the next
\* begins: an ingest starts only when no other is in progress.
Next ==
    \/ \E h \in Handlers, id \in ProductIds, fail \in BOOLEAN :
          Quiet /\ Fault(fail) /\ CheckStart(h, id, fail)
    \/ \E url \in {0} \cup ListingIds, t \in Targets, r \in FetchResults, failAt \in 0..5 :
          /\ Quiet /\ AddRequest(url, t, r, failAt)
          /\ Fault(url # 0 /\ (r = NoPrice \/ failAt # 0))
          /\ AddProduct(url, t, r, failAt)
    \/ \E fail \in BOOLEAN : Quiet /\ Fault(fail) /\ SweepStart(fail)
    \/ Quiet /\ Fault(FALSE) /\ SweepNext
    \/ \E p \in Procs, r \in FetchResults : Fault(r = NoPrice) /\ Scrape(p, r)
    \/ \E p \in Procs, fail \in BOOLEAN : Fault(fail) /\ Update(p, fail)
    \/ \E p \in Procs, fail \in BOOLEAN : Fault(fail) /\ History(p, fail)
    \/ \E p \in Procs, fail \in BOOLEAN : Fault(fail) /\ LoadAlerts(p, fail)
    \/ \E p \in Procs, ok \in BOOLEAN : Fault(~ok) /\ Notify(p, ok)
    \/ \E p \in Procs, fail \in BOOLEAN : Fault(fail) /\ Deactivate(p, fail)

Spec == Init /\ [][Next]_vars

\* Manual checks and sweep iterations as the event loop runs them: a handler
\* is suspended at every await, so a check or an iteration begins while
\* others are between two of their store operations.  Registrations are
\* left to Spec.
NextOverlap ==
    \/ \E h \in Handlers, id \in ProductIds, fail \in BOOLEAN :
          Fault(fail) /\ CheckStart(h, id, fail)
    \/ \E fail \in BOOLEAN : Fault(fail) /\ SweepStart(fail)
    \/ Fault(FALSE) /\ SweepNext
    \/ \E p \in Procs, r \in FetchResults : Fault(r = NoPrice) /\ Scrape(p, r)
    \/ \E p \in Procs, fail \in BOOLEAN : Fault(fail) /\ Update(p, fail)
    \/ \E p \in Procs, fail \in BOOLEAN : Fault(fail) /\ History(p, fail)
    \/ \E p \in Procs, fail \in BOOLEAN : Fault(fail) /\ LoadAlerts(p, fail)
    \/ \E p \in Procs, ok \in BOOLEAN : Fault(~ok) /\ Notify(p, ok)
    \/ \E p \in Procs, fail \in BOOLEAN : Fault(fail) /\ Deactivate(p, fail)

\* The overlap is over one listing: listing 1 is the only one tracked.
InitOverlap == Init /\ DOMAIN products = {1}

SpecOverlap == InitOverlap /\ [][NextOverlap]_vars

\* ------------------------------------------------------------ properties
\* Process p takes the step.
Stepped(p) == task'[p] # task[p]

\* No operation fails in the step.
NoFault == faults' = faults

\* C1: an ingest (manual check or sweep iteration) whose observed price equals
\* the listing's stored current price appends no history entry and runs no
\* alert evaluation; one whose observed price differs appends exactly one
\* history entry, with that price, and only then evaluates the alerts.
C1_IngestAppendsOnChangeOnly ==
    [][\A p \in Procs :
        /\ (task[p].pc = "update" /\ Stepped(p)) =>
              LET stored == products[task[p].id].current_price
              IN  /\ task[p].price = stored =>
                        /\ task'[p].pc # "history"
                        /\ UNCHANGED <<price_history, alerts, sent>>
                  /\ (task[p].price # stored /\ NoFault) => task'[p].pc = "history"
        /\ (task[p].pc = "history" /\ Stepped(p) /\ NoFault) =>
              price_history' =
                  [price_history EXCEPT ![task[p].id] = Append(@, task[p].price)]
        /\ (task'[p].pc = "alerts" /\ Stepped(p)) => task[p].pc = "history"
      ]_vars

\* The alert evaluation of p ends with this step.
EvalEnds(p) ==
    /\ task[p].pc \in {"alerts", "deactivate"}
    /\ Stepped(p)
    /\ task'[p].pc \notin {"notify", "deactivate"}

\* The alerts of listing i.
AlertsOf(i) == {a \in AlertIds : alerts[a].product_id = i}

DeactivatesAfterFailedMail(p) ==
    /\ task[p].pc = "deactivate"
    /\ log = Log("Error sending email", Head(task[p].todo))
    /\ Stepped(p)
    /\ NoFault

\* The step of p does not end its ingest in the catch that reports a failure.
NotPropagated(p) ==
    /\ log'.line \notin {"Error checking product", "Error checking product <id>"}
    /\ response'.status # 500
    /\ p \in Handlers /\ task'[p].pc = "idle" => response' = Reply("check", task[p].id, 200)

CheckEnds(h, old, new, before) ==
    /\ task[h].pc # "idle"
    /\ Stepped(h)
    /\ response' = Reply("check", 1, 200)
    /\ faults' = 0 /\ adds = 0
    /\ task[h].id = 1 /\ task[h].old = old /\ task[h].price = new
    /\ price_history'[1] \in {before, Append(before, new)}

\* C4 as stated: from price 100 with one active alert at 90, ingest(95)
\* appends no history entry and fires nothing; ingest(90) appends 90, fires
\* the alert and makes it inactive; ingest(85) appends 85 and fires nothing.
C4_ScenarioAsStated ==
    [][\A h \in Handlers :
          /\ CheckEnds(h, 100, 95, <<100>>) =>
                /\ price_history'[1] = <<100>>
                /\ alerts'[1].is_active /\ sent'[1] = 0
          /\ CheckEnds(h, 95, 90, <<100>>) =>
                /\ price_history'[1] = <<100, 90>>
                /\ ~alerts'[1].is_active /\ sent'[1] = 1
          /\ CheckEnds(h, 90, 85, <<100, 90>>) =>
                /\ price_history'[1] = <<100, 90, 85>>
                /\ ~alerts'[1].is_active /\ sent'[1] = 1
      ]_vars

\* C4 amended: ingest(95) appends the history entry 95 and fires nothing;
\* ingest(90) appends 90, fires the alert and makes it inactive; ingest(85)
\* appends 85 and fires nothing, the alert being inactive already.
C4_Scenario ==
    [][\A h \in Handlers :
          /\ CheckEnds(h, 100, 95, <<100>>) =>
                /\ price_history'[1] = <<100, 95>>
                /\ alerts'[1].is_active /\ sent'[1] = 0
                /\ alerts'[1].triggered_at = NULL
          /\ CheckEnds(h, 95, 90, <<100, 95>>) =>
                /\ price_history'[1] = <<100, 95, 90>>
                /\ ~alerts'[1].is_active /\ sent'[1] = 1
                /\ alerts'[1].triggered_at = now
          /\ CheckEnds(h, 90, 85, <<100, 95, 90>>) =>
                /\ price_history'[1] = <<100, 95, 90, 85>>
                /\ ~alerts'[1].is_active /\ sent'[1] = 1
                /\ alerts'[1].triggered_at \notin {NULL, now}
                /\ task[h].pc = "alerts"
      ]_vars

\* The three manual checks are over: history 100, 95, 90, 85, the alert
\* inactive and notified once.
C4_Witness ==
    /\ response = Reply("check", 1, 200)
    /\ faults = 0 /\ adds = 0
    /\ price_history[1] = <<100, 95, 90, 85>>
    /\ products[1].current_price = 85 /\ products[1].last_checked = 3
    /\ ~alerts[1].is_active /\ alerts[1].triggered_at = 2
    /\ sent[1] = 1

\* C5: an alert is active and untriggered when created; it becomes inactive
\* only in the deactivation write that follows its notification; an inactive
\* alert is never active again, whatever runs later; triggered_at is NULL for
\* as long as the alert is active.
C5_AlertLifecycle ==
    [][/\ \A a \in DOMAIN alerts' \ DOMAIN alerts :
            alerts'[a].is_active /\ alerts'[a].triggered_at = NULL
       /\ \A a \in AlertIds :
            /\ (alerts[a].is_active /\ ~alerts'[a].is_active) =>
                  \E p \in Procs :
                     /\ task[p].pc = "deactivate"
                     /\ Head(task[p].todo) = a
                     /\ task[p].price <= alerts[a].target_price
                     /\ sent[a] >= 1
            /\ ~alerts[a].is_active => ~alerts'[a].is_active
            /\ alerts[a].is_active => alerts[a].triggered_at = NULL
            /\ alerts'[a].is_active => alerts'[a].triggered_at = NULL
            /\ alerts'[a].product_id = alerts[a].product_id
      ]_vars

\* A listing whose alert has fired is added again with a new alert: the old
\* alert stays inactive next to the new, active one.
C5_Witness ==
    /\ response.route = "add" /\ response.status = 200
    /\ \E a, b \in AlertIds :
          /\ alerts[a].product_id = response.id /\ alerts[b].product_id = response.id
          /\ ~alerts[a].is_active /\ alerts[a].triggered_at # NULL
          /\ alerts[b].is_active /\ alerts[b].triggered_at = NULL
          /\ products[response.id].current_price <= alerts[a].target_price

\* C6: with ingests that do not overlap, the Notifier is invoked at most once
\* per alert, whatever store operation or notification fails on the way.
C6_NotifiedAtMostOnce == \A a \in AlertIds : sent[a] <= 1

\* C7: a manual check of an id that has no listing row is answered 404 and
\* changes nothing: no row, history entry or alert is written, no evaluation
\* runs, and the handler is over with that answer.
C7_MissingListingNotFound ==
    [][/\ (response'.route = "check" /\ response'.id \notin DOMAIN products) =>
             /\ NoFault => response'.status = 404
             /\ response'.status \in {404, 500}
             /\ UNCHANGED <<store, task, sweep, now, adds>>
             /\ \A h \in Handlers : task'[h].pc = "idle"
       /\ response'.status = 404 =>
             /\ response'.route = "check" /\ response'.id \notin DOMAIN products
             /\ log' = NoLog
       /\ \A p \in Procs : task'[p].pc \notin {"idle", "delay"} =>
             task'[p].id \in DOMAIN products
      ]_vars

\* A manual check of an id without a row has been answered 404.
C7_Witness ==
    /\ response = Reply("check", 3, 404)
    /\ 3 \notin DOMAIN products
    /\ now > 0

\* The cron callback takes the step.
SweepSteps == Stepped(Cron) \/ sweep' # sweep

\* C8: the sweep ingests only listings whose status is active: the rows it
\* iterates and the listing it is ingesting are active, and no step of the
\* sweep changes the row, the history or an alert of any other listing.
C8_SweepSkipsInactive ==
    [][/\ \A k \in DOMAIN sweep'.rows : products'[sweep'.rows[k].id].status = "active"
       /\ task'[Cron].pc \notin {"idle", "delay"} =>
             products'[task'[Cron].id].status = "active"
       /\ SweepSteps =>
             \A i \in DOMAIN products :
                products[i].status # "active" =>
                   /\ products'[i] = products[i]
                   /\ price_history'[i] = price_history[i]
                   /\ \A a \in AlertsOf(i) : alerts'[a] = alerts[a] /\ sent'[a] = sent[a]
      ]_vars

\* A sweep has ingested an active listing and is over, and the listing that
\* is not active has never been checked.
C8_Witness ==
    /\ task[Cron].pc = "delay"
    /\ sweep.idx = Len(sweep.rows)
    /\ \E i, j \in DOMAIN products :
          /\ products[i].status = "inactive" /\ products[i].last_checked = NULL
          /\ price_history[i] = <<Seed.price>>
          /\ products[j].status = "active" /\ products[j].last_checked = now
          /\ products[j].current_price # Seed.price

\* An iteration of the sweep ends in its catch with this step.
IterationFails == log'.line = "Error checking product <id>"

\* C9: a failure of the fetch or of a store operation in one iteration of
\* the sweep is caught in that iteration, which wrote nothing in the failing
\* step: the loop goes on at once with the next row, a listing it has not
\* visited, and the sweep ends only after its last row.
C9_SweepFailureConfined ==
    [][/\ \A i, j \in DOMAIN sweep'.rows :
             i # j => sweep'.rows[i].id # sweep'.rows[j].id
       /\ (Stepped(Cron) /\ ~NoFault /\ task[Cron].pc \in {"scrape", "update", "history"})
             => IterationFails
       /\ IterationFails =>
             /\ log'.id = task[Cron].id
             /\ UNCHANGED store
             /\ \A h \in Handlers : task'[h] = task[h]
             /\ IF sweep.idx < Len(sweep.rows)
                THEN /\ sweep' = [sweep EXCEPT !.idx = @ + 1]
                     /\ task'[Cron] = ItemTask(sweep.rows[sweep.idx + 1])
                ELSE sweep' = IdleSweep /\ task'[Cron] = IdleTask
       /\ (sweep.rows # <<>> /\ sweep'.rows = <<>>) => sweep.idx = Len(sweep.rows)
       /\ (sweep.rows # <<>> /\ sweep'.rows # <<>>) =>
             /\ sweep'.rows = sweep.rows
             /\ sweep'.idx \in {sweep.idx, sweep.idx + 1}
      ]_vars

\* The first iteration of a sweep failed before it wrote anything, and the
\* sweep has since ingested its second listing.
C9_Witness ==
    /\ task[Cron].pc = "delay"
    /\ Len(sweep.rows) = 2 /\ sweep.idx = 2
    /\ faults = 1 /\ adds = 0
    /\ products[sweep.rows[1].id].last_checked = NULL
    /\ products[sweep.rows[2].id].last_checked = now
    /\ price_history[sweep.rows[2].id] # <<Seed.price>>

\* C10: in one evaluation with several firing alerts, a failure while one of
\* them is handled (its mail or its deactivation write) leaves no other
\* firing alert of the listing without its mail and its deactivation.
C10_AlertFailuresIndependent ==
    [][\A p \in Procs :
          (EvalEnds(p) /\ task[p].pc = "deactivate") =>
             \A a \in AlertsOf(task[p].id) \ {Head(task[p].todo)} :
                task[p].price <= alerts[a].target_price =>
                   ~alerts'[a].is_active /\ sent'[a] >= 1
      ]_vars

\* The alert process p is about to notify or to deactivate.
Handling(p) ==
    IF task[p].pc \in {"notify", "deactivate"} THEN {Head(task[p].todo)} ELSE {}

\* C11: overlapping ingests of one listing interleave at their store
\* operations and none of them reads again what it has read: an ingest
\* decides "changed" against the price it read when it began, whatever is
\* stored by now; it appends its history entry also after another ingest
\* appended the same price; it loads every alert that is active at that
\* moment, then notifies and deactivates each of them even if another ingest
\* has deactivated the alert since.  A second notification without any
\* failure is always of this kind: the alert is inactive already, or another
\* ingest is about to deactivate it.
C11_OverlappingIngestsRace ==
    [][\A p \in Procs :
          /\ (task[p].pc = "update" /\ Stepped(p) /\ NoFault) =>
                /\ (task'[p].pc = "history") = (task[p].price # task[p].old)
                /\ products'[task[p].id].current_price = task[p].price
          /\ (task[p].pc = "history" /\ Stepped(p) /\ NoFault) =>
                /\ price_history' =
                      [price_history EXCEPT ![task[p].id] = Append(@, task[p].price)]
                /\ task'[p].pc = "alerts"
          /\ (task[p].pc = "alerts" /\ Stepped(p) /\ NoFault) =>
                \A a \in AlertsOf(task[p].id) :
                   (alerts[a].is_active /\ task[p].price <= alerts[a].target_price)
                      <=> (\E k \in DOMAIN task'[p].todo : task'[p].todo[k] = a)
          /\ (task[p].pc = "notify" /\ Stepped(p)) =>
                \A a \in Handling(p) :
                   /\ sent'[a] = sent[a] + 1
                   /\ task'[p].pc = "deactivate" /\ a \in Handling(p)'
                   /\ (sent[a] >= 1 /\ faults' = 0) =>
                         \/ ~alerts[a].is_active
                         \/ \E q \in Procs \ {p} :
                               task[q].pc = "deactivate" /\ a \in Handling(q)
          /\ (task[p].pc = "deactivate" /\ Stepped(p) /\ NoFault) =>
                \A a \in Handling(p) :
                   /\ ~alerts'[a].is_active
                   /\ alerts'[a].triggered_at = now
      ]_vars

\* Two manual checks of listing 1 overlapped and are over, nothing having
\* failed: both read 100 and observed 90, the history holds 90 twice, and the
\* alert at 90 was notified twice, each notification followed by its
\* deactivation write.
C11_Witness ==
    /\ \A p \in Procs : task[p].pc = "idle"
    /\ faults = 0 /\ adds = 0
    /\ response = Reply("check", 1, 200)
    /\ price_history[1] = <<100, 90, 90>>
    /\ products[1].current_price = 90
    /\ sent[1] = 2
    /\ ~alerts[1].is_active /\ alerts[1].triggered_at = now

\* No ingest of listing i is in progress.
NoIngestOf(i) == \A p \in Procs : task[p].pc \in {"idle", "delay"} \/ task[p].id # i

\* C12: whenever no ingest of a listing is in progress, the listing's stored
\* current price is the price of its most recently appended history entry,
\* after any sequence of registrations, manual checks and sweep iterations,
\* those that ended in a store failure part-way through included.
C12_PriceIsLastHistoryEntry ==
    \A i \in DOMAIN products :
        NoIngestOf(i) =>
           /\ price_history[i] # <<>>
           /\ products[i].current_price = price_history[i][Len(price_history[i])]

\* The ingest of p ends with this step, in which nothing fails.
IngestEnds(p) ==
    /\ task[p].pc \notin {"idle", "delay"}
    /\ task'[p].pc \in {"idle", "delay"}
    /\ NoFault

\* After the step no alert of listing i is active with a target at or above
\* the listing's current price.
NoMetAlertActive(i) ==
    \A a \in AlertsOf(i) :
        alerts'[a].is_active => alerts'[a].target_price < products'[i].current_price

\* C13 as stated: after every ingest of a listing that completes without
\* failure, no alert of that listing is still active while its target price
\* is greater than or equal to the listing's current price.
C13_NoMetAlertLeftActive ==
    [][\A p \in Procs : IngestEnds(p) => NoMetAlertActive(task[p].id)]_vars

\* C13 amended: the same, after every ingest that found the price changed
\* from the one it had read; an ingest that found it unchanged evaluates
\* nothing and leaves every alert as it was, an alert that meets its target
\* included.
C13_ChangedIngestLeavesNoMetAlert ==
    [][\A p \in Procs :
          IngestEnds(p) =>
             /\ products'[task[p].id].current_price = task[p].price
             /\ task[p].price # task[p].old => NoMetAlertActive(task[p].id)
             /\ task[p].price = task[p].old =>
                   /\ task[p].pc = "update"
                   /\ UNCHANGED <<alerts, sent, price_history>>
      ]_vars

\* Listing 1 was added again at 85 with a new alert at 90, which met its
\* target from the start; a manual check that observed 90 has fired it.
C13_Witness ==
    /\ response = Reply("check", 1, 200)
    /\ faults = 0 /\ adds = 1
    /\ price_history[1] = <<100, 85, 90>>
    /\ Len(alerts) = 2 /\ alerts[2].product_id = 1
    /\ ~alerts[2].is_active /\ alerts[2].triggered_at = now
    /\ sent[2] = 1

====
